---- MODULE Spec2Model ----
(***************************************************************************)
(* Issue relations of plane: IssueRelationViewSet in                       *)
(* apiserver/plane/app/views/issue/relation.py.                            *)
(*                                                                         *)
(* The relation table is a bag of rows, so that a row stored twice is a    *)
(* state the model can express.  The three handlers list, create and       *)
(* remove_relation are the actions of Spec, one action per handler call.   *)
(***************************************************************************)
EXTENDS Integers, Sequences, FiniteSets, Bags, TLC

\* Issue ids a request may name (the route's issue_id, the body's issues and
\* related_issue).  All of them are issues of workspace "w1".
Issues == {"i1", "i2"}

\* Workspace slugs a route may carry.
Slugs == {"w1", "w2"}

\* Project ids a route may carry; only those of Projects have a Project row.
ProjectIds == {"p1", "p2"}

Projects == {"p1"}

\* Project.workspace_id with the workspace's slug, for the rows of Projects.
ProjectWorkspace == [p \in Projects |-> "w1"]

\* Issue.workspace (slug) of every issue.
IssueWorkspace == [i \in Issues |-> "w1"]

\* request.data["relation_type"] values.
RelationTypes == {"blocking", "blocked_by", "duplicate", "relates_to"}

\* Longest request.data["issues"] list drawn.
MaxTargets == 2

\* Most rows the relation table holds.
MaxEdges == 2

\* batch_size of bulk_create.
BatchSize == 10

VARIABLES
    store,      \* IssueRelation.objects: bag of rows
    resp,       \* the Response (or the exception raised) of the last handler call
    emitted,    \* issue_activity.delay calls made by the last handler call
    procs       \* the calls in flight, statement by statement (TxnSpec)

vars == <<store, resp, emitted, procs>>

RECURSIVE SeqsUpTo(_, _)
SeqsUpTo(S, n) ==
    IF n = 0 THEN {<<>>}
    ELSE LET shorter == SeqsUpTo(S, n - 1)
         IN  shorter \cup {Append(s, x) : s \in {t \in shorter : Len(t) = n - 1}, x \in S}

\* The request.data["issues"] lists drawn.
TargetLists == SeqsUpTo(Issues, MaxTargets)

----------------------------------------------------------------------------
\* create without the swap of the endpoints for "blocking".
NewRelation_no_swap(issue_id, relation_type, issue, project_id) ==
    [ issue_id         |-> issue_id,
      related_issue_id |-> issue,
      relation_type    |-> IF relation_type = "blocking" THEN "blocked_by" ELSE relation_type,
      project_id       |-> project_id,
      workspace        |-> ProjectWorkspace[project_id] ]

\* The row built for one target of create.
NewRelation(issue_id, relation_type, issue, project_id) ==
    [ issue_id         |-> IF relation_type = "blocking" THEN issue ELSE issue_id,
      related_issue_id |-> IF relation_type = "blocking" THEN issue_id ELSE issue,
      relation_type    |-> IF relation_type = "blocking" THEN "blocked_by" ELSE relation_type,
      project_id       |-> project_id,
      workspace        |-> ProjectWorkspace[project_id] ]

\* The list comprehension handed to bulk_create: one row per listed issue.
NewRelations(issue_id, relation_type, issues, project_id) ==
    [k \in 1..Len(issues) |-> NewRelation(issue_id, relation_type, issues[k], project_id)]

\* The columns the table's uniqueness is declared on.
UniqueKey(r) == <<r.issue_id, r.related_issue_id, r.relation_type, r.project_id>>

Conflicts(rows, r) == \E s \in BagToSet(rows) : UniqueKey(s) = UniqueKey(r)

\* bulk_create without ignore_conflicts.
ignore_conflicts_off == FALSE

\* ignore_conflicts of the bulk_create call.
ignore_conflicts == TRUE

\* objs[i:i + batch_size] for i in range(0, len(objs), batch_size)
RECURSIVE Batches(_, _)
Batches(objs, batch_size) ==
    IF objs = <<>> THEN <<>>
    ELSE IF Len(objs) <= batch_size THEN <<objs>>
    ELSE <<SubSeq(objs, 1, batch_size)>>
         \o Batches(SubSeq(objs, batch_size + 1, Len(objs)), batch_size)

\* One row of an INSERT: kept out when it conflicts and conflicts are ignored.
InsertRow(rows, r) ==
    IF ignore_conflicts /\ Conflicts(rows, r) THEN rows ELSE rows (+) SetToBag({r})

\* One INSERT statement over a batch of rows, in the order given.
RECURSIVE InsertBatch(_, _)
InsertBatch(rows, batch) ==
    IF batch = <<>> THEN rows
    ELSE InsertBatch(InsertRow(rows, Head(batch)), Tail(batch))

RECURSIVE InsertBatches(_, _)
InsertBatches(rows, batches) ==
    IF batches = <<>> THEN rows
    ELSE InsertBatches(InsertBatch(rows, Head(batches)), Tail(batches))

\* The table after bulk_create(objs, batch_size=10): every batch inserted.
bulk_create(rows, objs) == InsertBatches(rows, Batches(objs, BatchSize))

\* Whether the table breaks its uniqueness, which the database refuses with
\* IntegrityError (the statement's transaction is rolled back).
IntegrityError(rows) ==
    \E r \in BagToSet(rows) :
        \/ CopiesIn(r, rows) > 1
        \/ \E s \in BagToSet(rows) : s # r /\ UniqueKey(s) = UniqueKey(r)

\* The rows IssueRelation.objects.get(...) of remove_relation matches, as a bag.
GetMatches(rows, slug, project_id, issue_id, related_issue_id) ==
    LET hit == { r \in BagToSet(rows) :
                    /\ r.workspace = slug
                    /\ r.project_id = project_id
                    /\ r.issue_id = issue_id
                    /\ r.related_issue_id = related_issue_id }
    IN  [r \in hit |-> rows[r]]

\* A lookup that takes the edge in either direction.
remove_lookup_either(rows, slug, project_id, issue_id, relation_type, related_issue) ==
    GetMatches(rows, slug, project_id, related_issue, issue_id)
    (+) GetMatches(rows, slug, project_id, issue_id, related_issue)

\* The lookup of remove_relation: the endpoints swap for "blocking".
remove_lookup(rows, slug, project_id, issue_id, relation_type, related_issue) ==
    IF relation_type = "blocking"
    THEN GetMatches(rows, slug, project_id, related_issue, issue_id)
    ELSE GetMatches(rows, slug, project_id, issue_id, related_issue)

\* Python's None, and a value that is present, as sequences of length 0 and 1.
None == <<>>

Some(x) == <<x>>

----------------------------------------------------------------------------
\* list: the relations of the workspace that touch the issue (.distinct()).
issue_relations(rows, slug, issue_id) ==
    { r \in BagToSet(rows) :
        /\ r.issue_id = issue_id \/ r.related_issue_id = issue_id
        /\ r.workspace = slug }

blocking_issues(rows, slug, issue_id) ==
    { r.issue_id : r \in { x \in issue_relations(rows, slug, issue_id) :
        x.relation_type = "blocked_by" /\ x.related_issue_id = issue_id } }

blocked_by_issues(rows, slug, issue_id) ==
    { r.related_issue_id : r \in { x \in issue_relations(rows, slug, issue_id) :
        x.relation_type = "blocked_by" /\ x.issue_id = issue_id } }

duplicate_issues(rows, slug, issue_id) ==
    { r.related_issue_id : r \in { x \in issue_relations(rows, slug, issue_id) :
        x.issue_id = issue_id /\ x.relation_type = "duplicate" } }

duplicate_issues_related(rows, slug, issue_id) ==
    { r.issue_id : r \in { x \in issue_relations(rows, slug, issue_id) :
        x.related_issue_id = issue_id /\ x.relation_type = "duplicate" } }

relates_to_issues(rows, slug, issue_id) ==
    { r.related_issue_id : r \in { x \in issue_relations(rows, slug, issue_id) :
        x.issue_id = issue_id /\ x.relation_type = "relates_to" } }

\* list without the query for the edges that end at the issue.
relates_to_issues_related_none(rows, slug, issue_id) == {}

relates_to_issues_related(rows, slug, issue_id) ==
    { r.issue_id : r \in { x \in issue_relations(rows, slug, issue_id) :
        x.related_issue_id = issue_id /\ x.relation_type = "relates_to" } }

\* Issue.issue_objects.filter(workspace__slug=slug) ... .distinct()
queryset(slug) == { i \in Issues : IssueWorkspace[i] = slug }

\* queryset.filter(pk__in=ids).annotate(relation_type=Value(label)).values(*fields):
\* a bag of result rows, one per issue of the queryset whose pk is among ids; of
\* the fields, the issue's id and the label are kept.
Annotated(slug, ids, label) ==
    SetToBag({ [id |-> i, relation_type |-> label] :
                 i \in { j \in queryset(slug) : j \in ids } })

\* The two result lists put one after the other.
QuerysetConcat(a, b) == a (+) b

\* a | b of two querysets over the same model: one query whose filter is the OR
\* of the two, so a row that both select is returned once.
QuerysetOr(a, b) == SetToBag(BagToSet(a) \cup BagToSet(b))

response_data(rows, slug, issue_id) ==
    [ blocking   |-> Annotated(slug, blocking_issues(rows, slug, issue_id), "blocking"),
      blocked_by |-> Annotated(slug, blocked_by_issues(rows, slug, issue_id), "blocked_by"),
      duplicate  |-> QuerysetOr(
                        Annotated(slug, duplicate_issues(rows, slug, issue_id), "duplicate"),
                        Annotated(slug, duplicate_issues_related(rows, slug, issue_id),
                                  "duplicate")),
      relates_to |-> QuerysetOr(
                        Annotated(slug, relates_to_issues(rows, slug, issue_id), "relates_to"),
                        Annotated(slug, relates_to_issues_related(rows, slug, issue_id),
                                  "relates_to")) ]

\* The issue_activity.delay call of create (actor, epoch, notification and
\* origin are passed through from the request and the clock).
created_activity(request) ==
    [ type             |-> "issue_relation.activity.created",
      requested_data   |-> request.data,
      issue_id         |-> request.issue_id,
      project_id       |-> request.project_id,
      current_instance |-> None ]

\* The issue_activity.delay call of remove_relation.
deleted_activity(request, current_instance) ==
    [ type             |-> "issue_relation.activity.deleted",
      requested_data   |-> request.data,
      issue_id         |-> request.issue_id,
      project_id       |-> request.project_id,
      current_instance |-> Some(current_instance) ]

\* The serializer create answers with.
create_serializer(relation_type) ==
    IF relation_type = "blocking" THEN "RelatedIssueSerializer" ELSE "IssueRelationSerializer"

----------------------------------------------------------------------------
\* The request of a call: the handler, the route's kwargs and request.data.
Request(op, slug, project_id, issue_id, data) ==
    [op |-> op, slug |-> slug, project_id |-> project_id, issue_id |-> issue_id,
     data |-> data]

\* A Response, or the exception that ends the call, with the handler's name.
Response(op, status, data) == [op |-> op, status |-> status, data |-> data]

\* The connections that serve calls side by side.
Procs == {"a", "b"}

\* A connection that serves no call and has served none.
Idle ==
    [ pc |-> 0, op |-> "none", request |-> None, batches |-> 0, done_batches |-> 0,
      pending |-> EmptyBag, instance |-> None,
      mutated |-> FALSE, crashed |-> FALSE,
      resp |-> Response("none", "none", None), emitted |-> <<>> ]

Init ==
    /\ store = EmptyBag
    /\ resp = Response("none", "none", None)
    /\ emitted = <<>>
    /\ procs = [p \in Procs |-> Idle]

list(slug, project_id, issue_id) ==
    /\ resp' = Response("list", "HTTP_200_OK", response_data(store, slug, issue_id))
    /\ emitted' = <<>>
    /\ UNCHANGED <<store, procs>>

create(slug, project_id, issue_id, relation_type, issues) ==
    /\ UNCHANGED procs
    /\ LET request == Request("create", slug, project_id, issue_id,
                              [relation_type |-> relation_type, issues |-> issues])
       IN  IF project_id \notin Projects
           THEN \* Project.objects.get raises
                /\ resp' = Response("create", "DoesNotExist", None)
                /\ emitted' = <<>>
                /\ UNCHANGED store
           ELSE LET objs == NewRelations(issue_id, relation_type, issues, project_id)
                    rows == bulk_create(store, objs)
                IN  IF IntegrityError(rows)
                    THEN /\ resp' = Response("create", "IntegrityError", None)
                         /\ emitted' = <<>>
                         /\ UNCHANGED store
                    ELSE /\ BagCardinality(rows) <= MaxEdges
                         /\ store' = rows
                         /\ emitted' = <<created_activity(request)>>
                         /\ resp' = Response("create", "HTTP_201_CREATED",
                                             [ serializer |-> create_serializer(relation_type),
                                               instances  |-> objs ])

remove_relation(slug, project_id, issue_id, relation_type, related_issue) ==
    /\ UNCHANGED procs
    /\ LET request == Request("remove_relation", slug, project_id, issue_id,
                              [relation_type |-> relation_type,
                               related_issue |-> related_issue])
           found == remove_lookup(store, slug, project_id, issue_id, relation_type,
                                  related_issue)
       IN  IF BagCardinality(found) = 0
           THEN /\ resp' = Response("remove_relation", "DoesNotExist", None)
                /\ emitted' = <<>>
                /\ UNCHANGED store
           ELSE IF BagCardinality(found) > 1
           THEN /\ resp' = Response("remove_relation", "MultipleObjectsReturned", None)
                /\ emitted' = <<>>
                /\ UNCHANGED store
           ELSE LET issue_relation == CHOOSE r \in BagToSet(found) : TRUE
                IN  /\ store' = store (-) SetToBag({issue_relation})
                    /\ emitted' = <<deleted_activity(request, issue_relation)>>
                    /\ resp' = Response("remove_relation", "HTTP_204_NO_CONTENT", None)

Next ==
    \/ \E slug \in Slugs, project_id \in ProjectIds, issue_id \in Issues :
            list(slug, project_id, issue_id)
    \/ \E slug \in Slugs, project_id \in ProjectIds, issue_id \in Issues,
          relation_type \in RelationTypes, issues \in TargetLists :
            create(slug, project_id, issue_id, relation_type, issues)
    \/ \E slug \in Slugs, project_id \in ProjectIds, issue_id \in Issues,
          relation_type \in RelationTypes, related_issue \in Issues :
            remove_relation(slug, project_id, issue_id, relation_type, related_issue)

Spec == Init /\ [][Next]_vars

----------------------------------------------------------------------------
(***************************************************************************)
(* TxnSpec: the calls of create and remove_relation statement by           *)
(* statement, on two connections.  A call starts with its first query,     *)
(* runs its statements in program order and answers after the last one;    *)
(* the rows of bulk_create are written inside one transaction, and a       *)
(* connection may die between any two statements.                          *)
(***************************************************************************)

\* create with the activity handed off before the rows are written.
create_steps_activity_first == <<"issue_activity.delay", "bulk_create">>

\* The statements of create after Project.objects.get, in program order.
create_steps == <<"bulk_create", "issue_activity.delay">>

\* The statements of remove_relation after IssueRelation.objects.get, in
\* program order.
remove_steps == <<"delete", "issue_activity.delay">>

StepsOf(op) == IF op = "create" THEN create_steps ELSE remove_steps

\* The statement a connection is about to run.
StepOf(proc) == IF proc.pc = 0 THEN "idle" ELSE StepsOf(proc.op)[proc.pc]

At(p, op, step) == procs[p].op = op /\ StepOf(procs[p]) = step

\* A request.data["issues"] list one longer than a batch: a repeated target,
\* then another one.
LongList == [k \in 1..(BatchSize + 1) |-> IF k <= BatchSize THEN "i2" ELSE "i1"]

\* The request.data["issues"] lists drawn in TxnSpec.
TxnTargetLists == {<<"i2">>, LongList}

\* The request.data["relation_type"] values drawn in TxnSpec: the one that is
\* stored inverted and one that is stored as given.
TxnRelationTypes == {"blocking", "relates_to"}

\* The rows create hands to bulk_create.
ObjsOf(request) ==
    NewRelations(request.issue_id, request.data.relation_type, request.data.issues,
                 request.project_id)

\* Every batch on its own, committed as it is written.
VisibleAfterBatch_autocommit(pending, last) == pending

\* The rows of a connection's open transaction that other connections see once
\* a batch is written: none before the last batch, whose end commits them all.
VisibleAfterBatch(pending, last) == IF last THEN pending ELSE EmptyBag

\* The call ends with an exception: its open transaction is rolled back.
Raise(proc, exception) ==
    [Idle EXCEPT !.op = proc.op, !.emitted = proc.emitted,
                 !.resp = Response(proc.op, exception, None)]

\* The Response the call returns.
Respond(proc) ==
    [Idle EXCEPT !.op = proc.op, !.emitted = proc.emitted, !.instance = proc.instance,
                 !.mutated = proc.mutated,
                 !.resp = IF proc.op = "create"
                          THEN Response("create", "HTTP_201_CREATED",
                                 [ serializer |->
                                     create_serializer(proc.request[1].data.relation_type),
                                   instances  |-> ObjsOf(proc.request[1]) ])
                          ELSE Response("remove_relation", "HTTP_204_NO_CONTENT", None)]

\* On to the next statement, or to the Response after the last one.
Advance(proc) ==
    IF proc.pc = Len(StepsOf(proc.op)) THEN Respond(proc) ELSE [proc EXCEPT !.pc = @ + 1]

\* A call of create arrives: project = Project.objects.get(pk=project_id)
StartCreate(p, slug, project_id, issue_id, relation_type, issues) ==
    /\ procs[p].pc = 0
    /\ LET request == Request("create", slug, project_id, issue_id,
                              [relation_type |-> relation_type, issues |-> issues])
           proc == [Idle EXCEPT !.pc = 1, !.op = "create", !.request = Some(request),
                                !.batches = Len(Batches(ObjsOf(request), BatchSize))]
       IN  procs' = [procs EXCEPT ![p] =
                        IF project_id \notin Projects
                        THEN Raise([Idle EXCEPT !.op = "create"], "DoesNotExist")
                        ELSE proc]
    /\ UNCHANGED <<store, resp, emitted>>

\* A call of remove_relation arrives: issue_relation = IssueRelation.objects.get(...)
\* and its snapshot.
StartRemove(p, slug, project_id, issue_id, relation_type, related_issue) ==
    /\ procs[p].pc = 0
    /\ LET request == Request("remove_relation", slug, project_id, issue_id,
                              [relation_type |-> relation_type,
                               related_issue |-> related_issue])
           found == remove_lookup(store, slug, project_id, issue_id, relation_type,
                                  related_issue)
           proc == [Idle EXCEPT !.op = "remove_relation"]
       IN  procs' = [procs EXCEPT ![p] =
             IF BagCardinality(found) = 0 THEN Raise(proc, "DoesNotExist")
             ELSE IF BagCardinality(found) > 1 THEN Raise(proc, "MultipleObjectsReturned")
             ELSE [proc EXCEPT !.pc = 1, !.request = Some(request),
                               !.instance = Some(CHOOSE r \in BagToSet(found) : TRUE)]]
    /\ UNCHANGED <<store, resp, emitted>>

\* One batch of bulk_create; the last one ends the transaction.
BulkCreateBatch(p) ==
    /\ At(p, "create", "bulk_create")
    /\ LET proc    == procs[p]
           batch   == Batches(ObjsOf(proc.request[1]), BatchSize)[proc.done_batches + 1]
           last    == proc.done_batches + 1 = proc.batches
           rows    == InsertBatch(store (+) proc.pending, batch)
           pending == rows (-) store
           visible == VisibleAfterBatch(pending, last)
       IN  \* an INSERT waits for the uncommitted rows it conflicts with
           /\ \A q \in Procs \ {p} : \A k \in 1..Len(batch) :
                  ~Conflicts(procs[q].pending, batch[k])
           /\ IF IntegrityError(rows)
              THEN /\ procs' = [procs EXCEPT ![p] = Raise(@, "IntegrityError")]
                   /\ UNCHANGED store
              ELSE /\ BagCardinality(store (+) visible) <= MaxEdges
                   /\ store' = store (+) visible
                   /\ procs' = [procs EXCEPT ![p] =
                         LET after == [proc EXCEPT !.done_batches = @ + 1,
                                                   !.pending = pending (-) visible,
                                                   !.mutated = last]
                         IN  IF last THEN Advance(after) ELSE after]
    /\ UNCHANGED <<resp, emitted>>

\* issue_activity.delay(type="issue_relation.activity.created", ...)
CreateActivity(p) ==
    /\ At(p, "create", "issue_activity.delay")
    /\ procs' = [procs EXCEPT ![p] =
                    Advance([@ EXCEPT !.emitted =
                                Append(@, created_activity(procs[p].request[1]))])]
    /\ UNCHANGED <<store, resp, emitted>>

\* issue_relation.delete(soft=False): the row goes if it is still there.
RemoveDelete(p) ==
    /\ At(p, "remove_relation", "delete")
    /\ store' = store (-) SetToBag({procs[p].instance[1]})
    /\ procs' = [procs EXCEPT ![p] = Advance([@ EXCEPT !.mutated = TRUE])]
    /\ UNCHANGED <<resp, emitted>>

\* issue_activity.delay(type="issue_relation.activity.deleted", ...)
RemoveActivity(p) ==
    /\ At(p, "remove_relation", "issue_activity.delay")
    /\ procs' = [procs EXCEPT ![p] =
                    Advance([@ EXCEPT !.emitted =
                                Append(@, deleted_activity(procs[p].request[1],
                                                           procs[p].instance[1]))])]
    /\ UNCHANGED <<store, resp, emitted>>

\* The connection dies between two statements: its open transaction is rolled
\* back and the call answers nothing.
Crash(p) ==
    /\ procs[p].pc # 0
    /\ procs' = [procs EXCEPT ![p] =
                    [Idle EXCEPT !.crashed = TRUE, !.op = procs[p].op,
                                 !.batches = procs[p].batches,
                                 !.done_batches = procs[p].done_batches]]
    /\ UNCHANGED <<store, resp, emitted>>

TxnNext ==
    \/ \E p \in Procs, project_id \in ProjectIds, issue_id \in Issues,
          relation_type \in TxnRelationTypes, issues \in TxnTargetLists :
            StartCreate(p, ProjectWorkspace["p1"], project_id, issue_id, relation_type,
                        issues)
    \/ \E p \in Procs, project_id \in Projects, issue_id \in Issues,
          relation_type \in TxnRelationTypes, related_issue \in Issues :
            StartRemove(p, ProjectWorkspace[project_id], project_id, issue_id,
                        relation_type, related_issue)
    \/ \E p \in Procs : BulkCreateBatch(p)
    \/ \E p \in Procs : CreateActivity(p)
    \/ \E p \in Procs : RemoveDelete(p)
    \/ \E p \in Procs : RemoveActivity(p)
    \/ \E p \in Procs : Crash(p)

TxnSpec == Init /\ [][TxnNext]_vars

----------------------------------------------------------------------------
\* Properties of the handlers, one call at a time (Spec).

SymmetricTypes == {"relates_to", "duplicate"}

Categories == {"blocking", "blocked_by", "duplicate", "relates_to"}

\* The row with the given endpoints and type in a project.
Edge(source, target, type, project_id) ==
    [ issue_id |-> source, related_issue_id |-> target, relation_type |-> type,
      project_id |-> project_id, workspace |-> ProjectWorkspace[project_id] ]

\* toStorageEdge of the design notes: the row a request (issue, type, target) is about.
ToStorageEdge(issue_id, relation_type, target, project_id) ==
    IF relation_type = "blocking"
    THEN Edge(target, issue_id, "blocked_by", project_id)
    ELSE Edge(issue_id, target, relation_type, project_id)

\* The issue ids of a category of a list response.
Ids(category) == { e.id : e \in BagToSet(category) }

\* List(X) in the workspace of the issue.
List(rows, issue_id) == response_data(rows, IssueWorkspace[issue_id], issue_id)

Created == resp.op = "create" /\ resp.status = "HTTP_201_CREATED"

Removed == resp.op = "remove_relation" /\ resp.status = "HTTP_204_NO_CONTENT"

\* C1: after a successful Create(A, "blocking", issues), for every listed B
\* other than A, List(A) has B under blocking, List(B) has A under blocked_by
\* and the row (B, A, blocked_by) is stored; no stored row has type "blocking".
C1_BlockingRoundTrip ==
    /\ \A r \in BagToSet(store) : r.relation_type # "blocking"
    /\ (Created /\ emitted[1].requested_data.relation_type = "blocking") =>
          LET A == emitted[1].issue_id
              issues == emitted[1].requested_data.issues
          IN  \A k \in 1..Len(issues) :
                LET B == issues[k]
                IN  A # B =>
                      /\ B \in Ids(List(store, A).blocking)
                      /\ A \in Ids(List(store, B).blocked_by)
                      /\ BagIn(Edge(B, A, "blocked_by", emitted[1].project_id), store)

C1_Witness ==
    /\ Created
    /\ emitted[1].issue_id = "i1"
    /\ emitted[1].requested_data = [relation_type |-> "blocking", issues |-> <<"i2">>]
    /\ store = SetToBag({Edge("i2", "i1", "blocked_by", "p1")})
    /\ "i2" \in Ids(List(store, "i1").blocking)

\* C2: a successful Create(A, t, issues) with t relates_to or duplicate shows,
\* for every listed B other than A, B in List(A) and A in List(B) under t, and
\* the only rows it adds are the rows (A, B, t).
C2_SymmetricVisibility ==
    [][ (Created' /\ emitted'[1].requested_data.relation_type \in SymmetricTypes) =>
          LET A == emitted'[1].issue_id
              t == emitted'[1].requested_data.relation_type
              p == emitted'[1].project_id
              issues == emitted'[1].requested_data.issues
          IN  /\ \A k \in 1..Len(issues) :
                    LET B == issues[k]
                    IN  A # B =>
                          /\ B \in Ids(List(store', A)[t])
                          /\ A \in Ids(List(store', B)[t])
                          /\ CopiesIn(Edge(A, B, t, p), store') = 1
              /\ \A r \in BagToSet(store') :
                    CopiesIn(r, store') > CopiesIn(r, store) =>
                      \E k \in 1..Len(issues) : r = Edge(A, issues[k], t, p)
      ]_vars

C2_Witness ==
    /\ Created
    /\ emitted[1].issue_id = "i1"
    /\ emitted[1].requested_data = [relation_type |-> "relates_to", issues |-> <<"i2">>]
    /\ store = SetToBag({Edge("i1", "i2", "relates_to", "p1")})
    /\ "i1" \in Ids(List(store, "i2").relates_to)
    /\ "i2" \in Ids(List(store, "i1").relates_to)

\* Whether a row with the request's normalised endpoints and type is stored in
\* the route's project and workspace.
EdgeStored(rows, slug, project_id, issue_id, relation_type, related_issue) ==
    \E r \in BagToSet(rows) :
        /\ r.workspace = slug
        /\ r.project_id = project_id
        /\ r.relation_type = (IF relation_type = "blocking" THEN "blocked_by"
                                                            ELSE relation_type)
        /\ r.issue_id = (IF relation_type = "blocking" THEN related_issue ELSE issue_id)
        /\ r.related_issue_id = (IF relation_type = "blocking" THEN issue_id
                                                               ELSE related_issue)

\* C4: a successful Remove(A, t, B), A and B distinct, deletes one row, the row
\* Create(A, t, [B]) stores, and leaves every other row as it was.
C4_RemoveDeletesCreatedEdge ==
    [][ (Removed' /\ emitted'[1].issue_id # emitted'[1].requested_data.related_issue) =>
          LET ev == emitted'[1]
              e  == ToStorageEdge(ev.issue_id, ev.requested_data.relation_type,
                                  ev.requested_data.related_issue, ev.project_id)
          IN  /\ BagIn(e, store)
              /\ store' = store (-) SetToBag({e})
              /\ ev.current_instance = Some(e)
      ]_vars

\* C5: Remove(A, t, B), A and B distinct, with no row (A, t, B), normalised,
\* stored answers DoesNotExist, leaves the table as it was and emits no activity.
C5_RemoveMissingIsNotFound ==
    [][ \A slug \in Slugs, project_id \in ProjectIds, A \in Issues, B \in Issues,
          t \in RelationTypes :
            ( /\ A # B
              /\ ~EdgeStored(store, slug, project_id, A, t, B)
              /\ remove_relation(slug, project_id, A, t, B) )
            => /\ resp'.status = "DoesNotExist"
               /\ store' = store
               /\ emitted' = <<>>
      ]_vars

\* C6: no stored row relates an issue to itself.
C6_NoSelfRelation ==
    \A r \in BagToSet(store) : r.issue_id # r.related_issue_id

\* C9: in every workspace and for every issue X, the blocking category of
\* list is the sources of the blocked_by rows that end at X, blocked_by the
\* targets of the blocked_by rows that start at X, duplicate and relates_to the
\* other endpoints of the rows of that type that touch X; every entry is in
\* its category once and carries the category's label.
C9_ListCategories ==
    \A slug \in Slugs, X \in Issues :
        LET d == response_data(store, slug, X)
            rows == { r \in BagToSet(store) : r.workspace = slug }
            Of(type) == { r \in rows : r.relation_type = type }
            Other(type) ==
                { r.related_issue_id : r \in { x \in Of(type) : x.issue_id = X } }
                \cup { r.issue_id : r \in { x \in Of(type) : x.related_issue_id = X } }
        IN  /\ Ids(d.blocking) =
                 { r.issue_id : r \in { x \in Of("blocked_by") : x.related_issue_id = X } }
            /\ Ids(d.blocked_by) =
                 { r.related_issue_id : r \in { x \in Of("blocked_by") : x.issue_id = X } }
            /\ Ids(d.duplicate) = Other("duplicate")
            /\ Ids(d.relates_to) = Other("relates_to")
            /\ \A c \in Categories : \A e \in BagToSet(d[c]) :
                    /\ CopiesIn(e, d[c]) = 1
                    /\ e.relation_type = c
                    /\ \A f \in BagToSet(d[c]) : f.id = e.id => f = e

C9_Witness ==
    /\ resp.op = "list"
    /\ store = SetToBag({Edge("i1", "i2", "duplicate", "p1"),
                         Edge("i2", "i1", "duplicate", "p1")})
    /\ resp.data = response_data(store, "w1", "i1")
    /\ resp.data.duplicate = SetToBag({[id |-> "i2", relation_type |-> "duplicate"]})

\* Whether e, a row between A and B, is stored once and is the only stored row
\* between A and B, in either direction and of any type.
OnlyEdgeBetween(rows, e, A, B) ==
    /\ CopiesIn(e, rows) = 1
    /\ \A r \in BagToSet(rows) :
          {r.issue_id, r.related_issue_id} = {A, B} => r = e

\* C10: while (A, B, t), t relates_to or duplicate, is the only row between A
\* and B, List(B) shows A under t, Remove(B, t, A) answers DoesNotExist and
\* leaves the table as it was, and Remove(A, t, B) succeeds, after which
\* neither List(A) shows B nor List(B) shows A.
C10_SymmetricRemoveOneSided ==
    [][ \A A \in Issues, B \in Issues, t \in SymmetricTypes, p \in Projects :
          (A # B /\ OnlyEdgeBetween(store, Edge(A, B, t, p), A, B)) =>
            /\ A \in Ids(List(store, B)[t])
            /\ remove_relation(ProjectWorkspace[p], p, B, t, A) =>
                  /\ resp'.status = "DoesNotExist"
                  /\ store' = store
            /\ remove_relation(ProjectWorkspace[p], p, A, t, B) =>
                  /\ resp'.status = "HTTP_204_NO_CONTENT"
                  /\ \A c \in Categories :
                        /\ B \notin Ids(List(store', A)[c])
                        /\ A \notin Ids(List(store', B)[c])
      ]_vars

C10_Witness ==
    /\ Removed
    /\ emitted[1].issue_id = "i1"
    /\ emitted[1].requested_data = [relation_type |-> "duplicate", related_issue |-> "i2"]
    /\ emitted[1].current_instance = Some(Edge("i1", "i2", "duplicate", "p1"))
    /\ \A c \in Categories :
          /\ "i2" \notin Ids(List(store, "i1")[c])
          /\ "i1" \notin Ids(List(store, "i2")[c])

----------------------------------------------------------------------------
\* Properties of the calls statement by statement (TxnSpec).

\* Whether the step is a batch of bulk_create run by p.
BulkCreateStepOf(p) ==
    /\ At(p, "create", "bulk_create")
    /\ procs'[p] # procs[p]
    /\ ~procs'[p].crashed

\* C3: the table never holds two rows with the same (issue, related issue,
\* type, project), whatever calls of create run side by side and whatever a
\* batch repeats; a bulk_create whose rows are all stored already leaves the
\* table as it was and does not fail.
C3_CreateIdempotent ==
    [][ /\ \A r \in BagToSet(store') :
              /\ CopiesIn(r, store') = 1
              /\ \A x \in BagToSet(store') : UniqueKey(x) = UniqueKey(r) => x = r
        /\ \A p \in Procs :
              ( /\ BulkCreateStepOf(p)
                /\ \A k \in 1..Len(ObjsOf(procs[p].request[1])) :
                      BagIn(ObjsOf(procs[p].request[1])[k], store) )
              => /\ store' = store
                 /\ procs'[p].resp.status # "IntegrityError"
                 /\ procs'[p].pc # 0
      ]_vars

\* Both connections have run bulk_create for the same row while the other's
\* call was in flight, and the row is stored once.
C3_Witness ==
    /\ \A p \in Procs :
          /\ At(p, "create", "issue_activity.delay")
          /\ procs[p].request[1].issue_id = "i1"
          /\ procs[p].request[1].data = [relation_type |-> "relates_to", issues |-> LongList]
    /\ store = SetToBag({Edge("i1", "i2", "relates_to", "p1"),
                         Edge("i1", "i1", "relates_to", "p1")})

\* C7: a call hands off an activity only after its change of the table and at
\* most once; a call that answers 201 has handed off one created activity
\* with no current_instance, a call that answers 204 one deleted activity
\* whose current_instance is the row it read before the delete, and a call
\* that ends with an exception has handed off none.
C7_ActivityPerMutation ==
    \A p \in Procs :
        LET proc == procs[p]
        IN  /\ Len(proc.emitted) <= 1
            /\ proc.emitted # <<>> => proc.mutated
            /\ (proc.pc = 0 /\ proc.resp.status = "HTTP_201_CREATED") =>
                  /\ Len(proc.emitted) = 1
                  /\ proc.emitted[1].type = "issue_relation.activity.created"
                  /\ proc.emitted[1].current_instance = None
            /\ (proc.pc = 0 /\ proc.resp.status = "HTTP_204_NO_CONTENT") =>
                  /\ Len(proc.emitted) = 1
                  /\ proc.emitted[1].type = "issue_relation.activity.deleted"
                  /\ proc.instance # None
                  /\ proc.emitted[1].current_instance = proc.instance
            /\ (proc.pc = 0 /\ proc.resp.status \in
                    {"DoesNotExist", "MultipleObjectsReturned", "IntegrityError"}) =>
                  proc.emitted = <<>>

C7_Witness ==
    /\ procs["a"].pc = 0
    /\ procs["a"].resp.status = "HTTP_201_CREATED"
    /\ procs["a"].emitted = <<created_activity(
            Request("create", "w1", "p1", "i1",
                    [relation_type |-> "blocking", issues |-> <<"i2">>]))>>
    /\ procs["b"].pc = 0
    /\ procs["b"].resp.status = "HTTP_204_NO_CONTENT"
    /\ procs["b"].emitted[1].type = "issue_relation.activity.deleted"
    /\ procs["b"].emitted[1].current_instance = Some(Edge("i2", "i1", "blocked_by", "p1"))
    /\ store = EmptyBag

\* C8: rows reach the table only with the last batch of a bulk_create, in one
\* step together with every row the earlier batches of the call wrote; a
\* batch that is not the last leaves each of its rows either already stored
\* or held back by the open transaction, and a crash between two batches
\* leaves the table as it was: no step leaves a part of the rows a call
\* writes in the table.
C8_BatchAtomic ==
    [][ /\ (\E r \in BagToSet(store') : CopiesIn(r, store') > CopiesIn(r, store)) =>
              \E p \in Procs :
                  LET objs == ObjsOf(procs[p].request[1])
                  IN  /\ BulkCreateStepOf(p)
                      /\ procs[p].done_batches + 1 = procs[p].batches
                      /\ procs[p].pending \sqsubseteq (store' (-) store)
                      /\ \A k \in (procs[p].done_batches * BatchSize + 1)..Len(objs) :
                            BagIn(objs[k], store')
        /\ \A p \in Procs :
              (BulkCreateStepOf(p) /\ procs'[p].pc # 0 /\
               procs[p].done_batches + 1 < procs[p].batches) =>
                  LET objs == ObjsOf(procs[p].request[1])
                  IN  /\ store' = store
                      /\ \A k \in (procs[p].done_batches * BatchSize + 1)..
                                   ((procs[p].done_batches + 1) * BatchSize) :
                            BagIn(objs[k], store (+) procs'[p].pending)
        /\ \A p \in Procs : (procs[p].pc # 0 /\ procs'[p].crashed) => store' = store
      ]_vars

\* A connection died after the first of two batches and the table holds none
\* of its rows.
C8_Witness ==
    /\ procs["a"].crashed
    /\ procs["a"].batches = 2
    /\ procs["a"].done_batches = 1
    /\ store = EmptyBag

====
